---- MODULE Spec2Model ----
(***************************************************************************)
(* Chuck-a-Luck prize wheel.                                               *)
(*                                                                         *)
(*   src/game.py  the display device: the wheel's spin animation state     *)
(*                machine, the angle solver, the statistics and the MQTT   *)
(*                bridge (paho client, callbacks on a background thread).  *)
(*   src/main.py  the button / LED ring device: the indicator state        *)
(*                machine driven by wheel/state messages and a local clock.*)
(*                                                                         *)
(* The specifications of the module:                                       *)
(*   Spec          the display device (game.py)                            *)
(*   NetFairSpec   Spec with a broker that answers the network thread      *)
(*   RaceSpec      Spec with the settling frame taken in two steps         *)
(*   TickSpec      the wheel of game.py drawn at two frame rates           *)
(*   SolverSpec    the angle formulas of game.py applied to drawn inputs   *)
(*   EaseSpec      the easing and wobble formulas of game.py applied to    *)
(*                 drawn progress values                                   *)
(*   RecordSpec    _process_spin_result of game.py applied to drawn        *)
(*                 segments                                                *)
(*   SimSpec       the display device with the silent simulation (K_p)     *)
(*   IndSpec       the indicator device (main.py), broker in reach         *)
(*   LinkSpec      the indicator device, the broker may be out of reach    *)
(*   LinkFairSpec  LinkSpec with a main loop that keeps running            *)
(*   ButtonSpec    the indicator device with its button pressed and        *)
(*                 released, the broker may be out of reach                *)
(*                                                                         *)
(* Arithmetic.  Angles are integers counting thirds of a degree (Deg): the *)
(* segment arc 360/54 and every rest / final angle of the program are      *)
(* whole numbers of thirds, so the solver is computed exactly.  Python's   *)
(* float % with a positive divisor is the floored modulo, as TLA+'s %;     *)
(* int() of a non-negative quotient is \div.  Wheel time is counted in     *)
(* quarter seconds (Sec), indicator time in milliseconds.                  *)
(***************************************************************************)
EXTENDS Integers, Sequences, FiniteSets, TLC

(***************************************************************************)
(* Program constants of src/game.py                                        *)
(***************************************************************************)
NUM_PEGS == 54
MIN_SPINS == 4
MAX_SPINS == 8
MIN_SPIN_TIME_SEC == 30
MAX_SPIN_TIME_SEC == 38
WIND_UP_ANGLE_DEG == 100
WIND_UP_TIME_SEC == 3
POINTER_ANGLE_DEG == 90
HISTORY_LIMIT == 45
\* _handle_events, K_p: self._run_silent_simulation(45)
SIM_SPINS == 45

(***************************************************************************)
(* Program constants of src/main.py                                        *)
(***************************************************************************)
MQTT_PING_INTERVAL_MS == 500
IDLE_BREATHE_SPEED_MS == 20
CYCLING_COLOR_SPEED_MS == 5
FLASH_COUNT_WHITE == 13
FLASH_COUNT_RED == 13
FLASH_COUNT_GREEN == 13
FLASH_FADE_DURATION_MS == 300
POST_FLASH_DELAY_MS == 2000
FADE_TO_GREEN_DURATION_MS == 2000
DEBOUNCE_MS == 200
RECONNECT_SLEEP_MS == 5000
RAINBOW_STEPS == 256

(***************************************************************************)
(* Bounds of the model                                                     *)
(***************************************************************************)
\* spins that may be started from the idle wheel in one run of the display
MaxStarts == 1
\* calls of _start_spin that may reach a wheel that is already animating
MaxRestarts == 1
\* a frame lasts 1..MaxFrameMult frame quanta (a quantum is half the wind-up)
MaxFrameMult == 2
\* IndSpec: a pass of the indicator's main loop lasts 1..MaxTickMult quanta
\* (a quantum is half the fade duration of a flash)
MaxTickMult == 2
\* IndSpec: the messages delivered to the indicator
MaxMessages == 2
\* RecordSpec: the results recorded one after the other
MaxRecorded == 2
\* EaseSpec: the progress values i / n drawn, n <= MaxGrid
MaxGrid == 8
\* SimSpec: K_p is followed while fewer than MaxSims * SIM_SPINS results are recorded
MaxSims == 1
\* SolverSpec: the drawn angles are AngleGrid(i), |i| <= MaxAngleIdx
MaxAngleIdx == 60
\* SolverSpec: whole turns added to an angle, |m| <= MaxTurns
MaxTurns == 2

Deg(d) == 3 * d
Sec(s) == 4 * s

NoneIdx == 0 - 1

WHEEL_RESULTS ==
  << <<4,5,6>>, <<1,2,4>>, <<5,5,5>>, <<3,6,6>>, <<5,5,6>>, <<4,4,4>>,
     <<1,2,3>>, <<3,3,4>>, <<1,4,5>>, <<6,6,6>>, <<1,1,4>>, <<1,2,6>>,
     <<9,9,9>>, <<1,2,4>>, <<5,5,5>>, <<3,6,6>>, <<1,3,4>>, <<2,5,6>>,
     <<1,4,6>>, <<0,0,0>>, <<1,2,3>>, <<3,3,4>>, <<2,3,4>>, <<1,4,5>>,
     <<1,1,2>>, <<3,3,3>>, <<9,9,9>>, <<4,5,6>>, <<1,2,2>>, <<2,4,5>>,
     <<2,3,6>>, <<5,5,6>>, <<1,4,6>>, <<3,3,4>>, <<2,2,2>>, <<2,3,6>>,
     <<1,1,2>>, <<3,4,6>>, <<4,5,6>>, <<9,9,9>>, <<1,2,2>>, <<5,5,5>>,
     <<3,6,6>>, <<1,1,1>>, <<5,5,6>>, <<1,4,6>>, <<0,0,0>>, <<1,2,3>>,
     <<3,3,4>>, <<2,2,2>>, <<4,4,5>>, <<2,3,6>>, <<1,3,5>>, <<9,9,9>> >>

\* WHEEL_RESULTS[idx] with Python's 0-based index
WheelResult(idx) == WHEEL_RESULTS[idx + 1]

HOUSE_WIN == <<0,0,0>>
SPIN_AGAIN == <<9,9,9>>

(***************************************************************************)
(* The angle formulas (game.py _pick_target, _update_spin, _update_state,  *)
(* _update_test_mode), with the wheel's parameters as arguments.           *)
(***************************************************************************)
\* self.seg_angle = 360.0/NUM_PEGS
SegAngle(n) == Deg(360) \div n
seg_angle == SegAngle(NUM_PEGS)

\* the start of segment k taken for its centre
TargetSegmentAngle_NoHalf(k, seg) == k * seg

\* target_segment_angle = (k + 0.5) * self.seg_angle
TargetSegmentAngle(k, seg) == ((2 * k + 1) * seg) \div 2

\* _pick_target with the distance to the destination not reduced to one turn
FinalAngleBase_NoWrap(k, rest, spins, windUp, pointer, seg) ==
  LET final_destination == TargetSegmentAngle(k, seg) - pointer
      start_angle       == rest - windUp
      total_rotation    == (spins * Deg(360))
                           + (final_destination - (start_angle % Deg(360)) + Deg(360))
  IN  start_angle + total_rotation

\* _pick_target: the value stored in final_angle_base
FinalAngleBase(k, rest, spins, windUp, pointer, seg) ==
  LET final_destination == TargetSegmentAngle(k, seg) - pointer
      start_angle       == rest - windUp
      total_rotation    == (spins * Deg(360))
                           + ((final_destination - (start_angle % Deg(360)) + Deg(360)) % Deg(360))
  IN  start_angle + total_rotation

\* the index read with segments twice as wide
SegmentUnderPointer_Doubled(angle, pointer, seg) ==
  LET normalized    == angle % Deg(360)
      under_pointer == (pointer - normalized + Deg(360)) % Deg(360)
  IN  under_pointer \div (2 * seg)

\* mutant of SegmentUnderPointer: the angle is used without either modulo
SegmentUnderPointer_NoModulo(angle, pointer, seg) ==
  (pointer - angle + (MaxTurns + 4) * Deg(360)) \div seg

\* _update_spin / _update_state: the index read under the pointer
SegmentUnderPointer(angle, pointer, seg) ==
  LET normalized    == angle % Deg(360)
      under_pointer == (pointer - normalized + Deg(360)) % Deg(360)
  IN  under_pointer \div seg

\* the index _update_spin records for a spin whose _pick_target drew k and
\* spins on a wheel resting at rest
RecordedIndex(k, rest, spins, n, windUp) ==
  SegmentUnderPointer(FinalAngleBase(k, rest, spins, windUp, Deg(POINTER_ANGLE_DEG),
                                     SegAngle(n)),
                      Deg(POINTER_ANGLE_DEG), SegAngle(n))

\* _update_state, lines 891-894: the index whose change plays the peg tick
TickIndex(angle, seg) ==
  LET pointer_angle       == Deg(POINTER_ANGLE_DEG)
      normalized_angle    == angle % Deg(360)
      angle_under_pointer == (pointer_angle - normalized_angle + Deg(360)) % Deg(360)
  IN  angle_under_pointer \div seg

\* _update_test_mode: the angle the wheel is locked to for a test index
TestModeAngle(i) == TargetSegmentAngle(i, seg_angle) - Deg(POINTER_ANGLE_DEG)

(***************************************************************************)
(* Result text and publish colour (game.py _process_spin_result,           *)
(* _update_spin)                                                           *)
(***************************************************************************)
DieStr(d) ==
  CASE d = 1 -> "1" [] d = 2 -> "2" [] d = 3 -> "3"
    [] d = 4 -> "4" [] d = 5 -> "5" [] d = 6 -> "6"
    [] d = 0 -> "0" [] OTHER -> "9"

ResultText(r) ==
  IF r = HOUSE_WIN THEN "House Wins"
  ELSE IF r = SPIN_AGAIN THEN "Spin Again"
  ELSE DieStr(r[1]) \o " - " \o DieStr(r[2]) \o " - " \o DieStr(r[3])

\* the payload published at the end of a spin, with every result taken for
\* a dice result
FlashMessage_AlwaysWhite(r) ==
  "flash_white"

FlashMessage(r) ==
  IF r = HOUSE_WIN THEN "flash_red"
  ELSE IF r = SPIN_AGAIN THEN "flash_green"
  ELSE "flash_white"

(***************************************************************************)
(* State                                                                   *)
(***************************************************************************)
VARIABLES
  \* ---- display device, Game.__init__ ----
  animation_state,        \* "idle", "winding_up", "spinning"
  animation_progress,     \* a rational <<numerator, denominator>>
  rest_angle,
  final_angle_base,
  current_spin_duration,
  current_screen,         \* "game", "stats"
  result_display_text,
  test_mode,
  test_index,
  winning_segment_index,  \* NoneIdx for None
  results_history_full,
  total_spins_full,
  current_angle,          \* [base, wobble], see AtAngle
  combo_counts_full,
  spin_counts_full,
  total_dice_rolled_full,
  \* ---- display device, MQTT client ----
  loop_started,           \* connect() returned and loop_start() ran
  is_connected,
  published,              \* payloads published on wheel/state, oldest first
  msg_pc,                 \* position of the MQTT thread in _on_mqtt_message
  \* ---- observers of the display device ----
  target_k,               \* k drawn by the last _pick_target (a local there)
  spin_count,             \* spins drawn by the last _pick_target (a local)
  starts,                 \* number of _start_spin calls that found the wheel idle
  restarts,               \* number of _start_spin calls that found it animating
  refused_trigger,        \* TRUE right after a spin trigger that did not start a spin
  \* ---- display device, the peg tick ----
  last_tick_idx,          \* the segment index of the last click, NoneIdx for None
  ticked,                 \* observer: the last step was a frame that played the click
  frame_pc,               \* position of the main loop: "events" between two frames,
                          \* "settling" inside _update_spin after line 1164
  \* ---- angle formulas applied to drawn inputs ----
  solver,
  \* ---- indicator device, the globals of main.py ----
  current_state,          \* "idle", "spinning", "flash_...", "post_flash_delay", "fade_to_green"
  rainbow_step,
  flash_color_target,
  flash_target_count,
  flash_count_completed,
  flash_is_fading_in,
  last_button_state,
  \* time stamps, each held as its age ticks_diff(now, stamp), see Aged
  last_anim_update,
  last_ping,
  debounce_time,
  flash_anim_start_time,
  post_flash_delay_start_time,
  fade_to_green_start_time,
  \* ---- indicator device, main loop and its surroundings ----
  ind_pc,                 \* "poll": at check_msg; "run": after it; "recover": in the except block
  session,                \* mqtt_client holds a live, subscribed connection
  broker_up,              \* the broker can be reached
  button_down,            \* button.value() == 0
  \* ---- observers of the indicator device ----
  delivered,              \* the message check_msg handed to mqtt_callback in this pass, or "none"
  last_msg,               \* the last message delivered so far, or "none"
  messages,               \* the number of messages delivered so far
  reconnected,            \* the live connection was made by the except block of the loop
  pressed_sent,           \* TRUE right after a pass that published "pressed"
  release_seen            \* a pass has read the button released since start-up and
                          \* since the last publish of "pressed"

wheel_vars == << animation_state, animation_progress, rest_angle, final_angle_base,
                 current_spin_duration, current_screen, result_display_text,
                 test_mode, test_index, winning_segment_index,
                 results_history_full, total_spins_full, current_angle,
                 combo_counts_full, spin_counts_full, total_dice_rolled_full >>
stats_vars == << combo_counts_full, spin_counts_full, total_dice_rolled_full >>
mqtt_vars == << loop_started, is_connected, published, msg_pc >>
obs_vars == << target_k, spin_count, starts, restarts, refused_trigger >>
led_vars == << current_state, rainbow_step, flash_color_target, flash_target_count,
               flash_count_completed, flash_is_fading_in, last_anim_update,
               flash_anim_start_time, post_flash_delay_start_time,
               fade_to_green_start_time >>
button_vars == << last_button_state, debounce_time, button_down, pressed_sent,
                  release_seen >>
link_vars == << ind_pc, session, broker_up, last_ping >>
ind_obs_vars == << delivered, last_msg, messages >>
ind_vars == << led_vars, button_vars, link_vars, ind_obs_vars, reconnected >>
tick_vars == << last_tick_idx, ticked >>
game_vars == << wheel_vars, mqtt_vars, obs_vars, tick_vars, frame_pc >>
vars == << game_vars, solver, ind_vars >>

(***************************************************************************)
(* Inputs drawn by the display device                                      *)
(***************************************************************************)
\* random.randrange(NUM_PEGS), drawn from a few indices: they land on a
\* spin-again, a house-win and a dice segment
SampleTargets == {0, 7, 13}
\* random.randint(MIN_SPINS, MAX_SPINS)
SampleSpins == {MIN_SPINS}
\* random.uniform(MIN_SPIN_TIME_SEC, MAX_SPIN_TIME_SEC)
SampleDurations == {Sec(MIN_SPIN_TIME_SEC)}
\* clock.tick(FPS) / 1000.0
FrameQuantum == Sec(WIND_UP_TIME_SEC) \div 2
FrameTimes == {FrameQuantum * j : j \in 1..MaxFrameMult}

WIND_UP_TIME == Sec(WIND_UP_TIME_SEC)

(***************************************************************************)
(* Rationals for animation_progress                                        *)
(***************************************************************************)
ZeroProgress == <<0, 1>>
\* p += t / d
AddProgress(p, t, d) ==
  IF p[2] = d THEN <<p[1] + t, d>>
  ELSE IF p[1] = 0 THEN <<t, d>>
  ELSE <<p[1] * d + t * p[2], p[2] * d>>
\* p >= 1.0
ProgressDone(p) == p[1] >= p[2]

RECURSIVE Gcd(_, _)
Gcd(a, b) == IF b = 0 THEN a ELSE Gcd(b, a % b)

\* the rational n / d, d > 0, in lowest terms
Rat(n, d) ==
  LET g == Gcd(IF n < 0 THEN 0 - n ELSE n, d)
  IN  IF n = 0 THEN << 0, 1 >> ELSE << n \div g, d \div g >>

\* min(1.0, p)
MinOne(p) == IF p[1] >= p[2] THEN << 1, 1 >> ELSE Rat(p[1], p[2])

(***************************************************************************)
(* current_angle                                                           *)
(*                                                                         *)
(* An angle is held as [base, wobble]: base is a rational number of thirds *)
(* of a degree, wobble is the argument t of the settle wobble              *)
(* SETTLE_WOBBLE_DEG * sin(pi * t) * exp(-3 * t) that is added to it.  The *)
(* wobble is 0 for t = 0 and for t = 1 and positive in between, so t = 1   *)
(* is held as t = 0 and two angles are equal when their records are.       *)
(***************************************************************************)
SETTLE_WOBBLE_START == << 3, 4 >>

\* the angle of a whole number a of thirds of a degree, no wobble
AtAngle(a) == [base |-> << a, 1 >>, wobble |-> ZeroProgress]

\* ease_in_out_quad
EaseInOutQuad(x) ==
  LET n == x[1]
      d == x[2]
  IN  IF 2 * n < d THEN Rat(2 * n * n, d * d)
      ELSE Rat(d * d - 2 * (d - n) * (d - n), d * d)

\* pow(1 - x, 3) in place of ease_out_cubic
EaseOutCubic_NoComplement(x) ==
  LET n == x[1]
      d == x[2]
  IN  Rat((d - n) * (d - n) * (d - n), d * d * d)

\* ease_out_cubic
EaseOutCubic(x) ==
  LET n == x[1]
      d == x[2]
  IN  Rat(d * d * d - (d - n) * (d - n) * (d - n), d * d * d)

\* end_wobble without the test u < SETTLE_WOBBLE_START
EndWobble_NoStart(u) ==
  LET t == Rat(u[1] * SETTLE_WOBBLE_START[2] - SETTLE_WOBBLE_START[1] * u[2],
               u[2] * (SETTLE_WOBBLE_START[2] - SETTLE_WOBBLE_START[1]))
  IN  IF t = << 1, 1 >> THEN ZeroProgress ELSE t

\* end_wobble: the argument t of the wobble added for progress u
EndWobble(u) ==
  IF u[1] * SETTLE_WOBBLE_START[2] < SETTLE_WOBBLE_START[1] * u[2]
  THEN ZeroProgress
  ELSE LET t == Rat(u[1] * SETTLE_WOBBLE_START[2] - SETTLE_WOBBLE_START[1] * u[2],
                    u[2] * (SETTLE_WOBBLE_START[2] - SETTLE_WOBBLE_START[1]))
       IN  IF t = << 1, 1 >> THEN ZeroProgress ELSE t

\* _update_wind_up: current_angle for progress p
WindUpAngle(rest, p) ==
  LET e == EaseInOutQuad(MinOne(p))
  IN  [base |-> Rat(rest * e[2] - Deg(WIND_UP_ANGLE_DEG) * e[1], e[2]),
       wobble |-> ZeroProgress]

\* _update_spin: current_angle for progress p
SpinAngle(rest, final, p) ==
  LET u == MinOne(p)
      e == EaseOutCubic(u)
      spin_start == rest - Deg(WIND_UP_ANGLE_DEG)
  IN  [base |-> Rat(spin_start * e[2] + (final - spin_start) * e[1], e[2]),
       wobble |-> EndWobble(u)]

(***************************************************************************)
(* Statistics, _process_spin_result                                        *)
(***************************************************************************)
\* len(set(winning_result))
Uniq(r) == Cardinality({ r[1], r[2], r[3] })

\* the counter of combo_counts_full that is incremented, with the test for
\* two equal dice left out
ComboCategory_NoDoubles(r) ==
  IF Uniq(r) = 1 /\ r \notin { HOUSE_WIN, SPIN_AGAIN } THEN "Triples"
  ELSE "Singles"

\* the counter of combo_counts_full that is incremented
ComboCategory(r) ==
  IF Uniq(r) = 1 /\ r \notin { HOUSE_WIN, SPIN_AGAIN } THEN "Triples"
  ELSE IF Uniq(r) = 2 THEN "Doubles"
  ELSE "Singles"

DiceKeys == { DieStr(d) : d \in 1..6 }
SpinKeys == DiceKeys \cup { "House Wins", "Spin Again" }

\* the dice of r that are counted: 1 <= d <= 6
CountedDice(r) == { i \in 1..3 : r[i] \in 1..6 }

\* spin_counts_full after r is recorded
SpinCounts(sc, r) ==
  IF r = HOUSE_WIN THEN [sc EXCEPT !["House Wins"] = @ + 1]
  ELSE IF r = SPIN_AGAIN THEN [sc EXCEPT !["Spin Again"] = @ + 1]
  ELSE [x \in SpinKeys |->
          sc[x] + Cardinality({ i \in CountedDice(r) : DieStr(r[i]) = x })]

\* _process_spin_result, the statistics (the string it returns is ResultText)
ProcessSpinResult(r) ==
  /\ total_spins_full' = total_spins_full + 1
  /\ combo_counts_full' = [combo_counts_full EXCEPT ![ComboCategory(r)] = @ + 1]
  /\ spin_counts_full' = SpinCounts(spin_counts_full, r)
  /\ total_dice_rolled_full' =
       IF r \in { HOUSE_WIN, SPIN_AGAIN } THEN total_dice_rolled_full
       ELSE total_dice_rolled_full + Cardinality(CountedDice(r))

(***************************************************************************)
(* Display device: Init                                                    *)
(***************************************************************************)
SolverIdle == [pc |-> "off"]

WheelInit ==
  /\ animation_state = "idle"
  /\ animation_progress = ZeroProgress
  /\ rest_angle = 0
  /\ final_angle_base = 0
  /\ current_spin_duration = 0
  /\ current_screen = "game"
  /\ result_display_text = ""
  /\ test_mode = FALSE
  /\ test_index = 0
  /\ winning_segment_index = NoneIdx
  /\ results_history_full = << >>
  /\ total_spins_full = 0
  /\ current_angle = AtAngle(0)
  /\ combo_counts_full = [x \in { "Singles", "Doubles", "Triples" } |-> 0]
  /\ spin_counts_full = [x \in SpinKeys |-> 0]
  /\ total_dice_rolled_full = 0
  \* _setup_mqtt: connect() either returns (the network thread starts) or raises
  /\ loop_started \in BOOLEAN
  /\ is_connected = FALSE
  /\ published = << >>
  /\ msg_pc = "idle"
  /\ target_k = NoneIdx
  /\ spin_count = 0
  /\ starts = 0
  /\ restarts = 0
  /\ refused_trigger = FALSE
  /\ last_tick_idx = NoneIdx
  /\ ticked = FALSE
  /\ frame_pc = "events"


(***************************************************************************)
(* Display device: operations                                              *)
(***************************************************************************)
\* _publish_state without the test of the connection
PublishState_NoConnectionTest(log, state) ==
  Append(log, state)

\* _publish_state: the list of published payloads after the call
PublishState(log, state) ==
  IF loop_started /\ is_connected THEN Append(log, state) ELSE log

\* the wheel is idle and the main loop is not inside a frame that settles it
AtRest == animation_state = "idle" /\ frame_pc = "events"

\* _start_spin with _pick_target, for the drawn duration d, target k, spins s
StartSpin(d, k, s) ==
  /\ winning_segment_index' = NoneIdx
  /\ animation_state' = "winding_up"
  /\ animation_progress' = ZeroProgress
  /\ current_spin_duration' = d
  /\ result_display_text' = ""
  /\ final_angle_base' = FinalAngleBase(k, rest_angle, s, Deg(WIND_UP_ANGLE_DEG),
                                        Deg(POINTER_ANGLE_DEG), seg_angle)
  /\ published' = PublishState(published, "spinning")
  /\ target_k' = k
  /\ spin_count' = s
  /\ starts' = IF AtRest THEN starts + 1 ELSE starts
  /\ restarts' = IF AtRest THEN restarts ELSE restarts + 1
  /\ last_tick_idx' = NoneIdx
  /\ ticked' = FALSE
  /\ UNCHANGED << rest_angle, current_screen, test_mode, test_index,
                  results_history_full, total_spins_full, current_angle, stats_vars,
                  loop_started, is_connected >>

\* the bound on _start_spin calls
CanStart ==
  IF AtRest THEN starts < MaxStarts ELSE restarts < MaxRestarts

\* mutant of SpaceAccepted: the is_animating test is missing
SpaceAccepted_NoAnimatingTest ==
  /\ current_screen = "game"
  /\ ~test_mode

\* _handle_events, K_SPACE: the condition under which _start_spin is called
SpaceAccepted ==
  /\ current_screen = "game"
  /\ animation_state = "idle"
  /\ ~test_mode

KeySpace ==
  /\ IF SpaceAccepted
     THEN /\ CanStart
          /\ \E d \in SampleDurations, k \in SampleTargets, s \in SampleSpins :
               StartSpin(d, k, s)
          /\ refused_trigger' = FALSE
     ELSE /\ refused_trigger' = TRUE
          /\ ticked' = FALSE
          /\ UNCHANGED << wheel_vars, published, target_k, spin_count, starts, restarts,
                          loop_started, is_connected, last_tick_idx >>
  /\ UNCHANGED << msg_pc, frame_pc, solver, ind_vars >>

\* _handle_events, K_s
KeyS ==
  /\ current_screen' = IF current_screen = "game" THEN "stats" ELSE "game"
  /\ refused_trigger' = FALSE
  /\ UNCHANGED << animation_state, animation_progress, rest_angle, final_angle_base,
                  current_spin_duration, result_display_text, test_mode, test_index,
                  winning_segment_index, results_history_full, total_spins_full,
                  current_angle, stats_vars,
                  mqtt_vars, target_k, spin_count, starts, restarts, last_tick_idx,
                  frame_pc, solver, ind_vars >>
  /\ ticked' = FALSE

\* _handle_events, K_t
KeyT ==
  /\ IF current_screen = "game"
     THEN /\ test_mode' = ~test_mode
          /\ result_display_text' = ""
          /\ winning_segment_index' = NoneIdx
          /\ refused_trigger' = FALSE
     ELSE /\ refused_trigger' = FALSE
          /\ UNCHANGED << test_mode, result_display_text, winning_segment_index >>
  /\ UNCHANGED << animation_state, animation_progress, rest_angle, final_angle_base,
                  current_spin_duration, current_screen, test_index,
                  results_history_full, total_spins_full,
                  current_angle, stats_vars,
                  mqtt_vars, target_k, spin_count, starts, restarts, last_tick_idx,
                  frame_pc, solver, ind_vars >>
  /\ ticked' = FALSE

\* the test indices the arrow keys step through: the first and, by the
\* wrap-around of K_LEFT, the last
SampleTestIndices == {0, NUM_PEGS - 1}
InTestWindow(i) == i \in SampleTestIndices

\* _handle_events, K_RIGHT / K_LEFT
KeyArrow(step) ==
  /\ current_screen = "game"
  /\ test_mode
  /\ LET i == (test_index + step + NUM_PEGS) % NUM_PEGS IN
       /\ InTestWindow(i)
       /\ test_index' = i
  /\ refused_trigger' = FALSE
  /\ UNCHANGED << animation_state, animation_progress, rest_angle, final_angle_base,
                  current_spin_duration, current_screen, result_display_text, test_mode,
                  winning_segment_index, results_history_full, total_spins_full,
                  current_angle, stats_vars,
                  mqtt_vars, target_k, spin_count, starts, restarts, last_tick_idx,
                  frame_pc, solver, ind_vars >>
  /\ ticked' = FALSE

KeyRight == KeyArrow(1)
KeyLeft == KeyArrow(0 - 1)

(***************************************************************************)
(* Display device: one frame, _update_state(dt)                            *)
(***************************************************************************)
\* results_history_full.insert(0, text) with the history never cut
InsertHistory_NoTrim(h, text) ==
  << text >> \o h

\* results_history_full.insert(0, text), cut to the 45 most recent
InsertHistory(h, text) ==
  LET g == << text >> \o h
  IN  IF Len(g) > HISTORY_LIMIT THEN SubSeq(g, 1, HISTORY_LIMIT) ELSE g

\* _update_test_mode
UpdateTestMode ==
  /\ animation_state' = "idle"
  /\ rest_angle' = TestModeAngle(test_index)
  /\ winning_segment_index' = test_index
  /\ result_display_text' = ResultText(WheelResult(test_index))
  /\ current_angle' = AtAngle(TestModeAngle(test_index))
  /\ UNCHANGED << animation_progress, final_angle_base, current_spin_duration,
                  results_history_full, total_spins_full, stats_vars, published >>

\* _update_wind_up
UpdateWindUp(t) ==
  LET p == AddProgress(animation_progress, t, WIND_UP_TIME) IN
  /\ IF ProgressDone(p)
     THEN /\ animation_state' = "spinning"
          /\ animation_progress' = ZeroProgress
     ELSE /\ animation_state' = animation_state
          /\ animation_progress' = p
  /\ current_angle' = WindUpAngle(rest_angle, p)
  /\ UNCHANGED << rest_angle, final_angle_base, current_spin_duration,
                  winning_segment_index, result_display_text,
                  results_history_full, total_spins_full, stats_vars, published >>

\* the settling of a spin with rest_angle left at the angle the spin
\* started from
SettleSpin_KeepRest(p) ==
  LET idx            == SegmentUnderPointer(final_angle_base, Deg(POINTER_ANGLE_DEG), seg_angle)
      winning_result == WheelResult(idx)
  IN  /\ animation_progress' = p
      /\ current_angle' = SpinAngle(rest_angle, final_angle_base, p)
      /\ animation_state' = "idle"
      /\ rest_angle' = rest_angle
      /\ winning_segment_index' = idx
      /\ result_display_text' = ResultText(winning_result)
      /\ ProcessSpinResult(winning_result)
      /\ results_history_full' = InsertHistory(results_history_full, ResultText(winning_result))
      /\ published' = PublishState(published, FlashMessage(winning_result))
      /\ UNCHANGED << final_angle_base, current_spin_duration >>

\* _update_spin, the branch taken when u >= 1.0: the spin has finished
SettleSpin(p) ==
  LET idx            == SegmentUnderPointer(final_angle_base, Deg(POINTER_ANGLE_DEG), seg_angle)
      winning_result == WheelResult(idx)
  IN  /\ animation_progress' = p
      /\ current_angle' = SpinAngle(rest_angle, final_angle_base, p)
      /\ animation_state' = "idle"
      /\ rest_angle' = final_angle_base
      /\ winning_segment_index' = idx
      /\ result_display_text' = ResultText(winning_result)
      /\ ProcessSpinResult(winning_result)
      /\ results_history_full' = InsertHistory(results_history_full, ResultText(winning_result))
      /\ published' = PublishState(published, FlashMessage(winning_result))
      /\ UNCHANGED << final_angle_base, current_spin_duration >>

\* _update_spin
UpdateSpin(t) ==
  LET p == AddProgress(animation_progress, t, current_spin_duration) IN
  IF ProgressDone(p)
  THEN SettleSpin(p)
  ELSE /\ animation_progress' = p
       /\ current_angle' = SpinAngle(rest_angle, final_angle_base, p)
       /\ UNCHANGED << animation_state, rest_angle, final_angle_base, current_spin_duration,
                       winning_segment_index, result_display_text,
                       results_history_full, total_spins_full, stats_vars, published >>

\* a frame off the game screen that draws the wheel at its rest angle
UpdatePaused_ShowRest ==
  /\ current_angle' = AtAngle(rest_angle)
  /\ UNCHANGED << animation_state, animation_progress, rest_angle, final_angle_base,
                  current_spin_duration, winning_segment_index, result_display_text,
                  results_history_full, total_spins_full, stats_vars, published >>

\* _update_state, the return of its first line: the game screen is not shown
UpdatePaused ==
  UNCHANGED << animation_state, animation_progress, rest_angle, final_angle_base,
               current_spin_duration, winning_segment_index, result_display_text,
               results_history_full, total_spins_full, current_angle, stats_vars,
               published >>

\* _update_state, the idle branch
UpdateIdle ==
  /\ current_angle' = AtAngle(rest_angle)
  /\ UNCHANGED << animation_state, animation_progress, rest_angle, final_angle_base,
                  current_spin_duration, winning_segment_index, result_display_text,
                  results_history_full, total_spins_full, stats_vars, published >>

\* idx_now of _update_state for the angle of n / d thirds of a degree
TickIndexRat(n, d, seg) ==
  ((Deg(POINTER_ANGLE_DEG) * d - n) % (Deg(360) * d)) \div (seg * d)

\* a bound above the settle wobble, in thirds of a degree: the wobble is at
\* most SETTLE_WOBBLE_DEG * 0.335 = 0.603 degrees
WobbleBound == 2

\* the values idx_now can take for current_angle a: one for an angle with no
\* wobble; with a wobble, which is positive and below WobbleBound, the index
\* of the base or the index WobbleBound further on
TickIndices(a) ==
  IF a.wobble[1] = 0
  THEN { TickIndexRat(a.base[1], a.base[2], seg_angle) }
  ELSE { TickIndexRat(a.base[1], a.base[2], seg_angle),
         TickIndexRat(a.base[1] + WobbleBound * a.base[2], a.base[2], seg_angle) }

\* _update_state, the tick: with the click sound loaded, a wheel that is not
\* idly resting after the update clicks when idx_now differs from last_tick_idx
UpdateTick ==
  IF current_screen = "game" /\ animation_state' # "idle"
  THEN \E idx_now \in TickIndices(current_angle') :
         IF idx_now # last_tick_idx
         THEN /\ ticked' = TRUE
              /\ last_tick_idx' = idx_now
         ELSE /\ ticked' = FALSE
              /\ UNCHANGED last_tick_idx
  ELSE /\ ticked' = FALSE
       /\ UNCHANGED last_tick_idx

\* _update_state(dt), then dt = clock.tick(FPS) / 1000.0
Frame(t) ==
  /\ IF current_screen # "game" THEN UpdatePaused
     ELSE IF test_mode THEN UpdateTestMode
     ELSE IF animation_state = "winding_up" THEN UpdateWindUp(t)
     ELSE IF animation_state = "spinning" THEN UpdateSpin(t)
     ELSE UpdateIdle
  /\ UpdateTick
  /\ refused_trigger' = FALSE
  /\ UNCHANGED << current_screen, test_mode, test_index, loop_started, is_connected,
                  msg_pc, target_k, spin_count, starts, restarts, frame_pc,
                  solver, ind_vars >>

(***************************************************************************)
(* Display device: the MQTT network thread (paho loop_start)               *)
(***************************************************************************)
\* the broker acknowledges the connection: _on_mqtt_connect subscribes
ConnAck ==
  /\ loop_started
  /\ ~is_connected
  /\ is_connected' = TRUE
  /\ ticked' = FALSE
  /\ UNCHANGED << wheel_vars, loop_started, published, msg_pc, obs_vars, last_tick_idx,
                  frame_pc, solver, ind_vars >>

\* _on_mqtt_message: the condition under which _start_spin is called
MessageAccepted ==
  /\ animation_state = "idle"
  /\ ~test_mode

\* _on_mqtt_message up to and including the test of line 1135
OnMqttMessage(payload) ==
  /\ is_connected
  /\ msg_pc = "idle"
  /\ IF payload = "pressed" /\ MessageAccepted
     THEN /\ msg_pc' = "start"
          /\ refused_trigger' = FALSE
     ELSE /\ msg_pc' = "idle"
          /\ refused_trigger' = (payload = "pressed")
  /\ ticked' = FALSE
  /\ UNCHANGED << wheel_vars, loop_started, is_connected, published,
                  target_k, spin_count, starts, restarts, last_tick_idx, frame_pc,
                  solver, ind_vars >>

\* _on_mqtt_message, line 1136: the call of _start_spin
MqttStartSpin ==
  /\ msg_pc = "start"
  /\ CanStart
  /\ \E d \in SampleDurations, k \in SampleTargets, s \in SampleSpins :
       StartSpin(d, k, s)
  /\ msg_pc' = "idle"
  /\ refused_trigger' = FALSE
  /\ UNCHANGED << frame_pc, solver, ind_vars >>

Payloads == {"pressed", "released"}

(***************************************************************************)
(* SolverSpec: the angle formulas applied to drawn inputs.  A run draws a  *)
(* wheel (the program's 54 segments with its 100 degree wind-up, or the    *)
(* six segment wheel with a 10 degree wind-up of the design's worked       *)
(* example), a target index, a rest angle and a spin count, computes the   *)
(* final angle as _pick_target does, reads the index under the pointer as  *)
(* _update_spin does, and reads the rest angle again after whole turns     *)
(* have been added to it.                                                  *)
(***************************************************************************)
\* every half segment of the 54 segment wheel (centres and borders), which
\* is every eighteenth of a segment of the six segment wheel
AngleGrid(i) == (Deg(10) \div 3) * i

SolverWheels ==
  { [n |-> NUM_PEGS, windUp |-> Deg(WIND_UP_ANGLE_DEG)],
    [n |-> 6,        windUp |-> Deg(10)] }

SolverInit ==
  \E w \in SolverWheels :
    \E k \in 0..(w.n - 1), i \in (0 - MaxAngleIdx)..MaxAngleIdx, s \in MIN_SPINS..MAX_SPINS :
      solver = [pc |-> "drawn", n |-> w.n, windUp |-> w.windUp, k |-> k,
                rest |-> AngleGrid(i), spins |-> s,
                final |-> 0, idx |-> NoneIdx, rest_idx |-> NoneIdx, rest_tick |-> NoneIdx,
                turns |-> 0, turned_idx |-> NoneIdx, turned_tick |-> NoneIdx]

\* _pick_target, then the read of _update_spin and of _update_state
SolverSolve ==
  /\ solver.pc = "drawn"
  /\ LET seg   == SegAngle(solver.n)
         final == FinalAngleBase(solver.k, solver.rest, solver.spins, solver.windUp,
                                 Deg(POINTER_ANGLE_DEG), seg)
     IN  solver' = [solver EXCEPT
                      !.pc = "read",
                      !.final = final,
                      !.idx = SegmentUnderPointer(final, Deg(POINTER_ANGLE_DEG), seg),
                      !.rest_idx = SegmentUnderPointer(solver.rest, Deg(POINTER_ANGLE_DEG), seg),
                      !.rest_tick = TickIndex(solver.rest, seg)]
  /\ UNCHANGED << game_vars, ind_vars >>

\* the same reads after m whole turns have been added to the angle
SolverTurn(m) ==
  /\ solver.pc = "read"
  /\ LET seg == SegAngle(solver.n)
         a   == solver.rest + m * Deg(360)
     IN  solver' = [solver EXCEPT
                      !.pc = "turned",
                      !.turns = m,
                      !.turned_idx = SegmentUnderPointer(a, Deg(POINTER_ANGLE_DEG), seg),
                      !.turned_tick = TickIndex(a, seg)]
  /\ UNCHANGED << game_vars, ind_vars >>

SolverNext ==
  \/ SolverSolve
  \/ \E m \in ((0 - MaxTurns)..MaxTurns) \ {0} : SolverTurn(m)


(***************************************************************************)
(* Indicator device (src/main.py)                                          *)
(*                                                                         *)
(* The program reads its time stamps only through ticks_diff(now, stamp),  *)
(* so each stamp is held as that difference, its age: "stamp = now" sets   *)
(* the age to 0 and a sleep of d ms adds d to every age.  An age is        *)
(* followed up to one past the limit it is compared with; beyond that the  *)
(* comparisons of the program no longer change.  The code inside one pass  *)
(* of the loop takes no time, the sleep at its end does.                   *)
(***************************************************************************)
TickQuantum == FLASH_FADE_DURATION_MS \div 2
TickTimes == { TickQuantum * j : j \in 1..MaxTickMult }

Aged(age, d, limit) == IF age + d > limit THEN limit + 1 ELSE age + d

\* the four payloads the display publishes on wheel/state
RecognisedMessages == { "spinning", "flash_red", "flash_green", "flash_white" }

\* the payloads seen on wheel/state: the four the display publishes and
\* three it never publishes, one of them the name of an internal state
StateMessages == RecognisedMessages \cup { "flash_blue", "flashing", "post_flash_delay" }
FlashPrefixed == { "flash_red", "flash_green", "flash_white", "flash_blue" }

\* current_state.startswith("flash_")
StartsWithFlash(m) == m \in FlashPrefixed

RED == << 255, 0, 0 >>
GREEN == << 0, 255, 0 >>
WHITE == << 255, 255, 255 >>
BLACK == << 0, 0, 0 >>

\* the globals as the module body and the lines before the loop leave them;
\* the device has been up for longer than every limit when the loop starts
IndBoot ==
  /\ current_state = "idle"
  /\ last_button_state = TRUE
  /\ debounce_time = DEBOUNCE_MS + 1
  \* the first handle_breathing_idle_leds call
  /\ rainbow_step = 1
  /\ last_anim_update = 0
  /\ last_ping = 0
  /\ flash_color_target = BLACK
  /\ flash_target_count = 0
  /\ flash_count_completed = 0
  /\ flash_is_fading_in = TRUE
  /\ flash_anim_start_time = FLASH_FADE_DURATION_MS + 1
  /\ post_flash_delay_start_time = POST_FLASH_DELAY_MS + 1
  /\ fade_to_green_start_time = FADE_TO_GREEN_DURATION_MS + 1
  /\ ind_pc = "poll"
  /\ button_down = FALSE
  /\ delivered = "none"
  /\ last_msg = "none"
  /\ messages = 0
  /\ reconnected = FALSE
  /\ pressed_sent = FALSE
  /\ release_seen = FALSE

\* connect_mqtt before the loop: it connects, or it fails and returns
IndInit ==
  /\ IndBoot
  /\ broker_up \in BOOLEAN
  /\ session = broker_up

\* the indicator with its broker out of reach, never polled
IndOff ==
  /\ IndBoot
  /\ broker_up = FALSE
  /\ session = FALSE

\* mqtt_callback without the comparison with current_state
MqttCallback_NoCompare(m) ==
  /\ current_state' = m
  /\ rainbow_step' = 0
  /\ IF StartsWithFlash(m)
     THEN /\ flash_count_completed' = 0
          /\ flash_is_fading_in' = TRUE
          /\ flash_anim_start_time' = 0
          /\ flash_color_target' = (IF m = "flash_red" THEN RED
                                    ELSE IF m = "flash_green" THEN GREEN ELSE WHITE)
          /\ flash_target_count' = (IF m = "flash_red" THEN FLASH_COUNT_RED
                                    ELSE IF m = "flash_green" THEN FLASH_COUNT_GREEN
                                    ELSE FLASH_COUNT_WHITE)
     ELSE UNCHANGED << flash_count_completed, flash_is_fading_in, flash_anim_start_time,
                       flash_color_target, flash_target_count >>
  /\ UNCHANGED << last_anim_update, post_flash_delay_start_time, fade_to_green_start_time >>

\* mqtt_callback
MqttCallback(m) ==
  IF m # current_state
  THEN /\ current_state' = m
       /\ rainbow_step' = 0
       /\ IF StartsWithFlash(m)
          THEN /\ flash_count_completed' = 0
               /\ flash_is_fading_in' = TRUE
               /\ flash_anim_start_time' = 0
               /\ flash_color_target' = (IF m = "flash_red" THEN RED
                                         ELSE IF m = "flash_green" THEN GREEN ELSE WHITE)
               /\ flash_target_count' = (IF m = "flash_red" THEN FLASH_COUNT_RED
                                         ELSE IF m = "flash_green" THEN FLASH_COUNT_GREEN
                                         ELSE FLASH_COUNT_WHITE)
          ELSE UNCHANGED << flash_count_completed, flash_is_fading_in, flash_anim_start_time,
                            flash_color_target, flash_target_count >>
       /\ UNCHANGED << last_anim_update, post_flash_delay_start_time,
                       fade_to_green_start_time >>
  ELSE UNCHANGED led_vars

\* the head of a pass of the loop: check_msg finds nothing
PollNothing ==
  /\ ind_pc = "poll"
  /\ session
  /\ ind_pc' = "run"
  /\ delivered' = "none"
  /\ UNCHANGED << led_vars, button_vars, session, broker_up, last_ping, last_msg, messages,
                  game_vars, solver >>
  /\ UNCHANGED reconnected

\* the head of a pass of the loop: check_msg hands message m to mqtt_callback
PollMessage(m) ==
  /\ ind_pc = "poll"
  /\ session
  /\ messages < MaxMessages
  /\ messages' = messages + 1
  /\ MqttCallback(m)
  /\ ind_pc' = "run"
  /\ delivered' = m
  /\ last_msg' = m
  /\ UNCHANGED << button_vars, session, broker_up, last_ping, game_vars, solver >>
  /\ UNCHANGED reconnected

\* the head of a pass of the loop: check_msg raises
PollRaises ==
  /\ ind_pc = "poll"
  /\ ~session
  /\ ind_pc' = "recover"
  /\ delivered' = "none"
  /\ UNCHANGED << led_vars, button_vars, session, broker_up, last_ping, last_msg, messages,
                  game_vars, solver >>
  /\ UNCHANGED reconnected

\* the globals the LED handlers work on, as a record
Leds ==
  [ current_state |-> current_state, rainbow_step |-> rainbow_step,
    flash_count_completed |-> flash_count_completed,
    flash_is_fading_in |-> flash_is_fading_in,
    last_anim_update |-> last_anim_update,
    flash_anim_start_time |-> flash_anim_start_time,
    post_flash_delay_start_time |-> post_flash_delay_start_time,
    fade_to_green_start_time |-> fade_to_green_start_time ]

\* handle_cycling_color_leds and handle_breathing_idle_leds, with their speed
HandleSteppedLeds(L, speed) ==
  IF L.last_anim_update > speed
  THEN [L EXCEPT !.rainbow_step = (L.rainbow_step + 1) % RAINBOW_STEPS,
                 !.last_anim_update = 0]
  ELSE L

\* handle_fading_flash_leds leaving the flashes one fade-out late
HandleFadingFlashLeds_LateExit(L) ==
  IF L.flash_anim_start_time >= FLASH_FADE_DURATION_MS
  THEN IF L.flash_is_fading_in
       THEN [L EXCEPT !.flash_anim_start_time = 0, !.flash_is_fading_in = FALSE]
       ELSE IF L.flash_count_completed + 1 > flash_target_count
            THEN [L EXCEPT !.flash_anim_start_time = 0,
                           !.flash_is_fading_in = TRUE,
                           !.flash_count_completed = L.flash_count_completed + 1,
                           !.current_state = "post_flash_delay",
                           !.post_flash_delay_start_time = 0]
            ELSE [L EXCEPT !.flash_anim_start_time = 0,
                           !.flash_is_fading_in = TRUE,
                           !.flash_count_completed = L.flash_count_completed + 1]
  ELSE L

\* handle_fading_flash_leds
HandleFadingFlashLeds(L) ==
  IF L.flash_anim_start_time >= FLASH_FADE_DURATION_MS
  THEN IF L.flash_is_fading_in
       THEN [L EXCEPT !.flash_anim_start_time = 0, !.flash_is_fading_in = FALSE]
       ELSE IF L.flash_count_completed + 1 >= flash_target_count
            THEN [L EXCEPT !.flash_anim_start_time = 0,
                           !.flash_is_fading_in = TRUE,
                           !.flash_count_completed = L.flash_count_completed + 1,
                           !.current_state = "post_flash_delay",
                           !.post_flash_delay_start_time = 0]
            ELSE [L EXCEPT !.flash_anim_start_time = 0,
                           !.flash_is_fading_in = TRUE,
                           !.flash_count_completed = L.flash_count_completed + 1]
  ELSE L

\* handle_post_flash_delay
HandlePostFlashDelay(L) ==
  IF L.post_flash_delay_start_time >= POST_FLASH_DELAY_MS
  THEN [L EXCEPT !.current_state = "fade_to_green", !.fade_to_green_start_time = 0]
  ELSE L

\* handle_fade_to_green ending in the rainbow of a spin
HandleFadeToGreen_ToSpinning(L) ==
  IF L.fade_to_green_start_time >= FADE_TO_GREEN_DURATION_MS
  THEN [L EXCEPT !.current_state = "spinning"]
  ELSE L

\* handle_fade_to_green
HandleFadeToGreen(L) ==
  IF L.fade_to_green_start_time >= FADE_TO_GREEN_DURATION_MS
  THEN [L EXCEPT !.current_state = "idle"]
  ELSE L

\* the state machine of the loop
UpdateLeds(L) ==
  IF L.current_state = "spinning" THEN HandleSteppedLeds(L, CYCLING_COLOR_SPEED_MS)
  ELSE IF StartsWithFlash(L.current_state) THEN HandleFadingFlashLeds(L)
  ELSE IF L.current_state = "post_flash_delay" THEN HandlePostFlashDelay(L)
  ELSE IF L.current_state = "fade_to_green" THEN HandleFadeToGreen(L)
  ELSE HandleSteppedLeds(L, IDLE_BREATHE_SPEED_MS)

PingDue == last_ping > MQTT_PING_INTERVAL_MS
\* the test of line 318 without the remembered reading
ButtonEdge_LevelTriggered == button_down /\ debounce_time > DEBOUNCE_MS

\* lines 315-318: the condition under which "pressed" is published
ButtonEdge == button_down /\ ~last_button_state /\ debounce_time > DEBOUNCE_MS

\* the rest of a pass of the loop: ping or publish raises
RunRaises ==
  /\ ind_pc = "run"
  /\ ~session
  /\ PingDue \/ ButtonEdge
  /\ ind_pc' = "recover"
  /\ pressed_sent' = FALSE
  /\ UNCHANGED << led_vars, last_button_state, debounce_time, button_down, release_seen,
                  session, broker_up, last_ping, ind_obs_vars, game_vars, solver >>
  /\ UNCHANGED reconnected

\* the rest of a pass of the loop: ping, button, LED handler, then a sleep
\* that ends d ms after the pass began
RunPass(d) ==
  /\ ind_pc = "run"
  /\ session \/ ~(PingDue \/ ButtonEdge)
  /\ last_ping' = Aged(IF PingDue THEN 0 ELSE last_ping, d, MQTT_PING_INTERVAL_MS)
  /\ debounce_time' = Aged(IF ButtonEdge THEN 0 ELSE debounce_time, d, DEBOUNCE_MS)
  /\ pressed_sent' = ButtonEdge
  /\ release_seen' = IF ButtonEdge THEN FALSE ELSE (release_seen \/ ~button_down)
  /\ last_button_state' = button_down
  /\ LET L == UpdateLeds(Leds)
     IN  /\ current_state' = L.current_state
         /\ rainbow_step' = L.rainbow_step
         /\ flash_count_completed' = L.flash_count_completed
         /\ flash_is_fading_in' = L.flash_is_fading_in
         /\ last_anim_update' = Aged(L.last_anim_update, d, IDLE_BREATHE_SPEED_MS)
         /\ flash_anim_start_time' = Aged(L.flash_anim_start_time, d, FLASH_FADE_DURATION_MS)
         /\ post_flash_delay_start_time' =
              Aged(L.post_flash_delay_start_time, d, POST_FLASH_DELAY_MS)
         /\ fade_to_green_start_time' =
              Aged(L.fade_to_green_start_time, d, FADE_TO_GREEN_DURATION_MS)
  /\ ind_pc' = "poll"
  /\ UNCHANGED << flash_color_target, flash_target_count, button_down, session, broker_up,
                  ind_obs_vars, game_vars, solver >>
  /\ UNCHANGED reconnected

\* the except block of the loop without its call of connect_mqtt
Recover_NoConnect ==
  /\ ind_pc = "recover"
  /\ session' = session
  /\ last_ping' = Aged(last_ping, RECONNECT_SLEEP_MS, MQTT_PING_INTERVAL_MS)
  /\ debounce_time' = Aged(debounce_time, RECONNECT_SLEEP_MS, DEBOUNCE_MS)
  /\ last_anim_update' = Aged(last_anim_update, RECONNECT_SLEEP_MS, IDLE_BREATHE_SPEED_MS)
  /\ flash_anim_start_time' =
       Aged(flash_anim_start_time, RECONNECT_SLEEP_MS, FLASH_FADE_DURATION_MS)
  /\ post_flash_delay_start_time' =
       Aged(post_flash_delay_start_time, RECONNECT_SLEEP_MS, POST_FLASH_DELAY_MS)
  /\ fade_to_green_start_time' =
       Aged(fade_to_green_start_time, RECONNECT_SLEEP_MS, FADE_TO_GREEN_DURATION_MS)
  /\ ind_pc' = "poll"
  /\ UNCHANGED << current_state, rainbow_step, flash_color_target, flash_target_count,
                  flash_count_completed, flash_is_fading_in, last_button_state,
                  button_down, pressed_sent, release_seen, broker_up, ind_obs_vars,
                  game_vars, solver >>
  /\ reconnected' = FALSE

\* the except block of the loop: sleep, then connect_mqtt, which sleeps
\* again when it fails
Recover ==
  /\ ind_pc = "recover"
  /\ session' = broker_up
  /\ last_ping' = Aged(last_ping, RECONNECT_SLEEP_MS, MQTT_PING_INTERVAL_MS)
  /\ debounce_time' = Aged(debounce_time, RECONNECT_SLEEP_MS, DEBOUNCE_MS)
  /\ last_anim_update' = Aged(last_anim_update, RECONNECT_SLEEP_MS, IDLE_BREATHE_SPEED_MS)
  /\ flash_anim_start_time' =
       Aged(flash_anim_start_time, RECONNECT_SLEEP_MS, FLASH_FADE_DURATION_MS)
  /\ post_flash_delay_start_time' =
       Aged(post_flash_delay_start_time, RECONNECT_SLEEP_MS, POST_FLASH_DELAY_MS)
  /\ fade_to_green_start_time' =
       Aged(fade_to_green_start_time, RECONNECT_SLEEP_MS, FADE_TO_GREEN_DURATION_MS)
  /\ ind_pc' = "poll"
  /\ UNCHANGED << current_state, rainbow_step, flash_color_target, flash_target_count,
                  flash_count_completed, flash_is_fading_in, last_button_state,
                  button_down, pressed_sent, release_seen, broker_up, ind_obs_vars,
                  game_vars, solver >>
  /\ reconnected' = broker_up

\* the connection to the broker is lost: the calls on mqtt_client raise
LinkDrop ==
  /\ broker_up
  /\ broker_up' = FALSE
  /\ session' = FALSE
  /\ UNCHANGED << led_vars, button_vars, ind_pc, last_ping, ind_obs_vars,
                  game_vars, solver >>
  /\ reconnected' = FALSE

\* the broker can be reached again
LinkRestore ==
  /\ ~broker_up
  /\ broker_up' = TRUE
  /\ UNCHANGED << led_vars, button_vars, ind_pc, session, last_ping, ind_obs_vars,
                  game_vars, solver >>
  /\ UNCHANGED reconnected

\* the broker stays in reach: no call on mqtt_client raises
IndNext ==
  \/ PollNothing
  \/ \E m \in StateMessages : PollMessage(m)
  \/ \E d \in TickTimes : RunPass(d)

\* the steps of the loop when the broker may be out of reach; the display
\* then publishes the result of a spin, if anything
LinkMessages == { "flash_red" }

LinkLoop ==
  \/ PollNothing
  \/ \E m \in LinkMessages : PollMessage(m)
  \/ PollRaises
  \/ RunRaises
  \/ \E d \in TickTimes : RunPass(d)
  \/ Recover

LinkNext ==
  \/ LinkLoop
  \/ LinkDrop
  \/ LinkRestore

(***************************************************************************)
(* ButtonSpec: the indicator's loop with a button that is pressed and      *)
(* released at any moment, no message on wheel/state, a broker that may go *)
(* out of reach, and passes of the loop short enough for several of them   *)
(* to fall inside the debounce time.                                       *)
(***************************************************************************)
\* Pin.value() changes: the button goes down
ButtonPress ==
  /\ ~button_down
  /\ button_down' = TRUE
  /\ UNCHANGED << led_vars, last_button_state, debounce_time, pressed_sent, release_seen,
                  link_vars, ind_obs_vars, reconnected, game_vars, solver >>

\* Pin.value() changes: the button comes up
ButtonRelease ==
  /\ button_down
  /\ button_down' = FALSE
  /\ UNCHANGED << led_vars, last_button_state, debounce_time, pressed_sent, release_seen,
                  link_vars, ind_obs_vars, reconnected, game_vars, solver >>

\* the lengths of a pass of the loop
ButtonTickTimes == { (DEBOUNCE_MS \div 4) * j : j \in { 1, 3 } }

ButtonNext ==
  \/ PollNothing
  \/ PollRaises
  \/ RunRaises
  \/ \E d \in ButtonTickTimes : RunPass(d)
  \/ Recover
  \/ LinkDrop
  \/ LinkRestore
  \/ ButtonPress
  \/ ButtonRelease

(***************************************************************************)
(* RaceSpec: the frame that settles a spin taken in two steps, with the    *)
(* network thread running in between.  The two threads may be switched     *)
(* between any two statements; the switch modelled is the one after line   *)
(* 1164, where animation_state is "idle" and rest_angle is not yet set.    *)
(***************************************************************************)
\* _update_spin up to line 1164, in a frame that finishes the spin
SettleBegin(t) ==
  LET p == AddProgress(animation_progress, t, current_spin_duration) IN
  /\ frame_pc = "events"
  /\ current_screen = "game"
  /\ ~test_mode
  /\ animation_state = "spinning"
  /\ ProgressDone(p)
  /\ animation_progress' = p
  /\ current_angle' = SpinAngle(rest_angle, final_angle_base, p)
  /\ animation_state' = "idle"
  /\ frame_pc' = "settling"
  /\ refused_trigger' = FALSE
  /\ ticked' = FALSE
  /\ UNCHANGED << rest_angle, final_angle_base, current_spin_duration, current_screen,
                  result_display_text, test_mode, test_index, winning_segment_index,
                  results_history_full, total_spins_full, stats_vars, mqtt_vars,
                  target_k, spin_count, starts, restarts, last_tick_idx, solver, ind_vars >>

\* _update_spin from line 1165 on, then the tick of _update_state
SettleFinish ==
  LET idx            == SegmentUnderPointer(final_angle_base, Deg(POINTER_ANGLE_DEG), seg_angle)
      winning_result == WheelResult(idx)
  IN  /\ frame_pc = "settling"
      /\ rest_angle' = final_angle_base
      /\ winning_segment_index' = idx
      /\ result_display_text' = ResultText(winning_result)
      /\ ProcessSpinResult(winning_result)
      /\ results_history_full' = InsertHistory(results_history_full, ResultText(winning_result))
      /\ published' = PublishState(published, FlashMessage(winning_result))
      /\ UNCHANGED << animation_state, animation_progress, current_angle, final_angle_base,
                      current_spin_duration, current_screen, test_mode, test_index,
                      loop_started, is_connected, msg_pc,
                      target_k, spin_count, starts, restarts, solver, ind_vars >>
      /\ UpdateTick
      /\ refused_trigger' = FALSE
      /\ frame_pc' = "events"

RaceNext ==
  \/ /\ frame_pc = "events"
     /\ \/ KeySpace
        \/ \E t \in FrameTimes : Frame(t)
        \/ \E t \in FrameTimes : SettleBegin(t)
  \/ SettleFinish
  \/ ConnAck
  \/ \E payload \in Payloads : OnMqttMessage(payload)
  \/ MqttStartSpin

(***************************************************************************)
(* TickSpec: the wheel started from the keyboard and drawn at two frame    *)
(* rates.  The frames of Spec last half a wind-up or more, so that the     *)
(* first frame of a spin always leaves the resting segment; here the       *)
(* wind-up is also drawn in frames of a quarter of a second.               *)
(***************************************************************************)
FineFrame == 1

TickFrameTimes ==
  IF animation_state = "winding_up" THEN { FineFrame } \cup FrameTimes ELSE FrameTimes

TickNext ==
  \/ KeySpace
  \/ \E t \in TickFrameTimes : Frame(t)

(***************************************************************************)
(* EaseSpec: ease_out_cubic, end_wobble and the angle of _update_spin      *)
(* applied to drawn progress values x <= y of a grid i / n.                *)
(***************************************************************************)
\* the spin the angle is computed for: from rest 0 to segment 0
EaseRest == 0
EaseFinal ==
  FinalAngleBase(0, EaseRest, MIN_SPINS, Deg(WIND_UP_ANGLE_DEG), Deg(POINTER_ANGLE_DEG), seg_angle)

EaseInit ==
  \E n \in 1..MaxGrid :
    \E i \in 0..n, j \in 0..n :
      /\ i <= j
      /\ solver = [pc |-> "drawn", x |-> << i, n >>, y |-> << j, n >>]

\* lines 1157-1162 of _update_spin for u = x, and ease_out_cubic for y
EaseApply ==
  /\ solver.pc = "drawn"
  /\ solver' = [pc |-> "eased", x |-> solver.x, y |-> solver.y,
                ex |-> EaseOutCubic(solver.x), ey |-> EaseOutCubic(solver.y),
                wobble |-> EndWobble(solver.x),
                angle |-> SpinAngle(EaseRest, EaseFinal, solver.x)]
  /\ UNCHANGED << game_vars, ind_vars >>

EaseNext == EaseApply

(***************************************************************************)
(* _process_spin_result applied to drawn segments                          *)
(***************************************************************************)
\* one turn of the loop of _run_silent_simulation: a segment is drawn, its
\* result is recorded and its text is put in front of the history
RecordResult(idx) ==
  /\ total_spins_full < MaxRecorded
  /\ ProcessSpinResult(WheelResult(idx))
  /\ results_history_full' = << ResultText(WheelResult(idx)) >> \o results_history_full
  /\ solver' = [pc |-> "recorded", idx |-> idx]
  /\ UNCHANGED << animation_state, animation_progress, rest_angle, final_angle_base,
                  current_spin_duration, current_screen, result_display_text,
                  test_mode, test_index, winning_segment_index, current_angle,
                  mqtt_vars, obs_vars, tick_vars, frame_pc, ind_vars >>

RecordNext == \E idx \in 0..(NUM_PEGS - 1) : RecordResult(idx)

(***************************************************************************)
(* SimSpec: the display device with the key K_p, which runs                *)
(* _run_silent_simulation(45) within the handling of one event.  The 45    *)
(* results random.choice draws are taken from SampleSimulations.           *)
(***************************************************************************)
\* the statistics and the history as one record
StatsNow ==
  [total |-> total_spins_full, combo |-> combo_counts_full,
   spin |-> spin_counts_full, dice |-> total_dice_rolled_full,
   hist |-> results_history_full]

\* the loop of _run_silent_simulation over the drawn segments: each pass
\* calls _process_spin_result(wr), which adds one to the total, one to the
\* counter ComboCategory(wr) and to the counters SpinCounts names, and then
\* results_history_full.insert(0, txt); the passes are summed counter by
\* counter
SimulatedSpins(st, draw) ==
  LET n     == Len(draw)
      wr(i) == WheelResult(draw[i])
      dice  == { ij \in (1..n) \X (1..3) :
                   /\ wr(ij[1]) \notin { HOUSE_WIN, SPIN_AGAIN }
                   /\ ij[2] \in CountedDice(wr(ij[1])) }
  IN  [total |-> st.total + n,
       combo |-> [c \in DOMAIN st.combo |->
                    st.combo[c] + Cardinality({ i \in 1..n : ComboCategory(wr(i)) = c })],
       spin  |-> [x \in SpinKeys |->
                    st.spin[x]
                    + (IF x = "House Wins" THEN Cardinality({ i \in 1..n : wr(i) = HOUSE_WIN })
                       ELSE IF x = "Spin Again"
                       THEN Cardinality({ i \in 1..n : wr(i) = SPIN_AGAIN })
                       ELSE Cardinality({ ij \in dice : DieStr(wr(ij[1])[ij[2]]) = x }))],
       dice  |-> st.dice + Cardinality(dice),
       hist  |-> [j \in 1..n |-> ResultText(wr(n + 1 - j))] \o st.hist]

\* the cut of the history after the loop
TrimHistory(h) ==
  IF Len(h) > HISTORY_LIMIT THEN SubSeq(h, 1, HISTORY_LIMIT) ELSE h

\* the segments of one simulation: SIM_SPINS draws from the wheel, stepping
\* round it from segment a by b segments a draw
SimulationDraw(a, b) == [i \in 1..SIM_SPINS |-> (a + b * i) % NUM_PEGS]
SampleSimulations == { << 0, 1 >>, << 7, 11 >> }

\* K_p with the is_animating test missing
SilentSimAccepted_NoAnimatingTest ==
  current_screen = "game"

\* _handle_events, K_p: the condition under which _run_silent_simulation is called
SilentSimAccepted ==
  /\ current_screen = "game"
  /\ animation_state = "idle"

\* _handle_events, K_p, with _run_silent_simulation(45)
KeyP ==
  /\ total_spins_full < MaxSims * SIM_SPINS
  /\ IF SilentSimAccepted
     THEN \E ab \in SampleSimulations :
            LET st == SimulatedSpins(StatsNow, SimulationDraw(ab[1], ab[2])) IN
              /\ total_spins_full' = st.total
              /\ combo_counts_full' = st.combo
              /\ spin_counts_full' = st.spin
              /\ total_dice_rolled_full' = st.dice
              /\ results_history_full' = TrimHistory(st.hist)
              /\ solver' = [pc |-> "simulated", from |-> ab[1], by |-> ab[2]]
     ELSE UNCHANGED << results_history_full, total_spins_full, stats_vars, solver >>
  /\ refused_trigger' = FALSE
  /\ ticked' = FALSE
  /\ UNCHANGED << animation_state, animation_progress, rest_angle, final_angle_base,
                  current_spin_duration, current_screen, result_display_text,
                  test_mode, test_index, winning_segment_index, current_angle,
                  mqtt_vars, target_k, spin_count, starts, restarts, last_tick_idx,
                  frame_pc, ind_vars >>

\* the frame of SimSpec: the wind-up takes one frame
SimFrame == WIND_UP_TIME

SimNext ==
  \/ KeyP
  \/ KeySpace
  \/ KeyS
  \/ Frame(SimFrame)
  \/ ConnAck

(***************************************************************************)
(* Specifications                                                          *)
(***************************************************************************)
\* the display device stays as constructed, with no network thread
SolverSpecInit == WheelInit /\ ~loop_started /\ SolverInit /\ IndOff

SolverSpec == SolverSpecInit /\ [][SolverNext]_vars

\* the display device stays idle, with no network thread
RecordSpecInit == WheelInit /\ ~loop_started /\ solver = SolverIdle /\ IndOff

RecordSpec == RecordSpecInit /\ [][RecordNext]_vars

\* the display device with a network thread that never delivers a message
SimSpecInit == WheelInit /\ loop_started /\ solver = SolverIdle /\ IndOff

SimSpec == SimSpecInit /\ [][SimNext]_vars

\* the display device, with the indicator out of reach
Init == WheelInit /\ solver = SolverIdle /\ IndOff

\* the display device stays as constructed, with no network thread
IndSpecInit == WheelInit /\ ~loop_started /\ solver = SolverIdle /\ IndInit /\ session

IndSpec == IndSpecInit /\ [][IndNext]_vars

LinkSpecInit == WheelInit /\ ~loop_started /\ solver = SolverIdle /\ IndInit

ButtonSpec == LinkSpecInit /\ [][ButtonNext]_vars

LinkSpec == LinkSpecInit /\ [][LinkNext]_vars

\* the loop keeps running; the broker and the network owe nothing
LinkFairSpec == LinkSpec /\ WF_vars(LinkLoop)

Next ==
  \/ KeySpace
  \/ KeyS
  \/ KeyT
  \/ KeyRight
  \/ KeyLeft
  \/ \E t \in FrameTimes : Frame(t)
  \/ ConnAck
  \/ \E payload \in Payloads : OnMqttMessage(payload)
  \/ MqttStartSpin

Spec == Init /\ [][Next]_vars

\* the display device, the settling frame in two steps
RaceSpec == Init /\ [][RaceNext]_vars

EaseSpecInit == WheelInit /\ ~loop_started /\ EaseInit /\ IndOff

EaseSpec == EaseSpecInit /\ [][EaseNext]_vars

\* the display device with no network thread
TickSpecInit == WheelInit /\ ~loop_started /\ solver = SolverIdle /\ IndOff

TickSpec == TickSpecInit /\ [][TickNext]_vars

\* the broker is in reach: a network thread that runs gets its connection
\* acknowledged
NetFairSpec == Spec /\ WF_vars(ConnAck)

(***************************************************************************)
(* Properties                                                              *)
(***************************************************************************)
Animating == animation_state \in {"winding_up", "spinning"}

\* the fields of the wheel a spin start writes, and the MQTT side of a start
start_fields == << animation_state, animation_progress, current_spin_duration,
                   final_angle_base, rest_angle, winning_segment_index,
                   result_display_text, published, msg_pc, target_k, spin_count,
                   starts, restarts >>

\* a step that handles a spin trigger: the SPACE key, or a wheel/spin
\* "pressed" message up to its test of the wheel's state
TriggerStep == KeySpace \/ OnMqttMessage("pressed")

\* C1: when a spin has settled, the index recorded as the winner is the target
\* index drawn when that spin started (the solver's round trip).
C1_WinnerIsTarget ==
  (animation_state = "idle" /\ ~test_mode /\ winning_segment_index # NoneIdx)
    => winning_segment_index = target_k

\* C2: the worked example: six segments of 60 degrees, pointer at 90, rest
\* angle 0, wind-up 10 degrees, four turns, target 2 give the final angle 1500
\* degrees, and the index read at 1500 degrees is 2.
C2_WorkedExample ==
  (/\ solver.pc = "read"
   /\ solver.n = 6 /\ solver.windUp = Deg(10) /\ solver.rest = 0
   /\ solver.spins = 4 /\ solver.k = 2)
    => (solver.final = Deg(1500) /\ solver.idx = 2)

\* C3: a spin trigger handled while the wheel is winding up or spinning
\* changes no field of the wheel, publishes nothing and leaves nothing pending.
C3_TriggerWhileAnimatingIsNoOp ==
  [][(TriggerStep /\ Animating) => UNCHANGED start_fields]_vars

C3_Witness ==
  /\ Animating
  /\ refused_trigger
  /\ ~test_mode
  /\ current_screen = "game"

\* C4: while test mode is on no step takes the wheel out of idle, draws a new
\* target or publishes "spinning".
C4_NoStartInTestMode ==
  [][test_mode =>
       /\ (animation_state = "idle" => animation_state' = "idle")
       /\ starts' = starts /\ restarts' = restarts
       /\ target_k' = target_k
       /\ published' = published]_vars

\* C5: a spin that has started ends only by completing the spinning phase, and
\* the step that ends it records one result and, when connected, publishes one
\* flash message.
C5_SpinEndsBySettling ==
  [][(Animating /\ animation_state' # animation_state) =>
       \/ (animation_state = "winding_up" /\ animation_state' = "spinning")
       \/ /\ animation_state = "spinning" /\ animation_state' = "idle"
          /\ total_spins_full' = total_spins_full + 1
          /\ Len(results_history_full') = Len(results_history_full) + 1
          /\ (is_connected => Len(published') = Len(published) + 1)]_vars

\* C6: animation_state moves only idle -> winding_up, winding_up -> spinning
\* (progress reset to 0) and spinning -> idle (progress at 1 or more), and the
\* wind-up is never begun again while it runs.
C6_CycleOnly ==
  [][/\ (animation_state' # animation_state =>
           \/ (animation_state = "idle" /\ animation_state' = "winding_up")
           \/ (animation_state = "winding_up" /\ animation_state' = "spinning"
                 /\ animation_progress' = ZeroProgress)
           \/ (animation_state = "spinning" /\ animation_state' = "idle"
                 /\ ProgressDone(animation_progress')))
     /\ ~(animation_state = "winding_up" /\ animation_state' = "winding_up"
            /\ starts' + restarts' # starts + restarts)]_vars

\* C7: the index read under the pointer is the same after whole turns are added
\* to the angle, for the read of the settled result and for the peg tick read.
C7_Periodic ==
  solver.pc = "turned" =>
    /\ solver.turned_idx = solver.rest_idx
    /\ solver.turned_tick = solver.rest_tick

C7_Witness ==
  /\ solver.pc = "turned"
  /\ solver.n = NUM_PEGS
  /\ solver.turns = 0 - MaxTurns
  /\ solver.rest = AngleGrid(0 - 7)
  /\ solver.rest_idx = 17


\* a step of the loop in which check_msg hands a message to mqtt_callback
Delivery == ind_pc = "poll" /\ messages' = messages + 1

\* C8: when the message handed to mqtt_callback equals current_state (a
\* second "flash_red" during the flash sequence the first one started, a
\* second "spinning" while spinning), the call changes no indicator variable:
\* current_state, rainbow_step, flash_count_completed, the fade direction,
\* the phase start times, the flash colour and the target count stay.
C8_SameStringIsNoOp ==
  [][(Delivery /\ delivered' = current_state) => UNCHANGED led_vars]_vars

\* a second "flash_..." has been delivered in the middle of a fade-out, after
\* at least one whole flash
C8_Witness ==
  /\ ind_pc = "run"
  /\ delivered = current_state
  /\ StartsWithFlash(current_state)
  /\ flash_count_completed > 0
  /\ ~flash_is_fading_in
  /\ flash_anim_start_time > 0

\* C9: a message equal to the message delivered before it is a no-op however
\* late it comes: it changes no indicator variable, so a second "flash_red"
\* delivered during the post-flash delay, the fade to green or idle starts no
\* new flash sequence.
C9_RepeatIsNoOp ==
  [][(Delivery /\ delivered' = last_msg) => UNCHANGED led_vars]_vars

\* C10: once a flash message has been delivered and no further message
\* follows, the indicator goes through its flashes, the post-flash delay and
\* the fade to green, and reaches idle as the clock advances.
C10_FlashSequenceReachesIdle ==
  \A n \in 1..MaxMessages :
    (StartsWithFlash(current_state) /\ messages = n)
      ~> (current_state = "idle" \/ messages > n)


\* C11: a message that differs from current_state replaces it at once,
\* whatever the indicator is showing, and the new state starts from its
\* first phase: rainbow_step is 0; for a flash message no flash is counted,
\* the fade goes in and the fade starts at the arrival; the timer of the
\* post-flash delay starts at the arrival when that state is the target.
C11_DifferentStringRestarts ==
  [][(Delivery /\ delivered' # current_state) =>
       /\ current_state' = delivered'
       /\ rainbow_step' = 0
       /\ StartsWithFlash(delivered') =>
            /\ flash_count_completed' = 0
            /\ flash_is_fading_in'
            /\ flash_anim_start_time' = 0
       /\ (delivered' = "post_flash_delay") => (post_flash_delay_start_time' = 0)]_vars

\* the handler the loop calls for state cs is the idle animation
IdleDispatch(cs) ==
  /\ cs # "spinning"
  /\ ~StartsWithFlash(cs)
  /\ cs \notin { "post_flash_delay", "fade_to_green" }

\* C12: after a message that is none of "spinning", "flash_red",
\* "flash_green", "flash_white" the indicator runs the idle animation: the
\* state the message leaves is one the loop handles with the idle handler,
\* never a flash sequence or the spinning animation.
C12_UnknownRunsIdle ==
  (last_msg \notin (RecognisedMessages \cup { "none" })) => IdleDispatch(current_state)


\* C13: while the connection to the broker is down the animation of the
\* last state goes on with the clock: a flash sequence under way when the
\* connection drops goes on to the post-flash delay, the fade to green and
\* idle without the connection coming back.
C13_AnimationAdvancesWhileDown ==
  (StartsWithFlash(current_state) /\ ~broker_up) ~> (current_state = "idle" \/ broker_up)

\* C14: a failing check_msg, ping or publish does not end the loop (a step
\* of the loop is always possible); the except block is left by a call of
\* connect_mqtt, which connects and subscribes when the broker is in reach;
\* so a lost connection with the broker in reach again is made again, unless
\* the broker goes out of reach first.
C14_ReconnectsUntilSuccess ==
  /\ [](ENABLED LinkLoop)
  /\ [][(ind_pc = "recover" /\ ind_pc' # "recover") => (session' = broker_up)]_vars
  /\ (broker_up /\ ~session) ~> (session \/ ~broker_up)

\* after a failure the except block has connected again and a message has
\* been delivered over the new connection
C14_Witness ==
  /\ reconnected
  /\ session
  /\ ind_pc = "run"
  /\ delivered \in LinkMessages


\* a step in which _start_spin ran
SpinStarts == starts' + restarts' = starts + restarts + 1
\* a step in which a spin settled
SpinSettles == total_spins_full' = total_spins_full + 1
\* the client reports a connection
Connected == loop_started /\ is_connected

\* C15: while connected, the start of a spin publishes "spinning" and the
\* settling of a spin publishes one message that depends on the landed
\* segment alone: "flash_red" for (0,0,0), "flash_green" for (9,9,9),
\* "flash_white" for every other segment.
C15_PublishesStartAndResult ==
  [][/\ (SpinStarts /\ Connected) => (published' = Append(published, "spinning"))
     /\ (SpinSettles /\ Connected) =>
          LET landed == WHEEL_RESULTS[winning_segment_index' + 1]
          IN  published' = Append(published,
                                  IF landed = << 0, 0, 0 >> THEN "flash_red"
                                  ELSE IF landed = << 9, 9, 9 >> THEN "flash_green"
                                  ELSE "flash_white")]_vars

\* a connected display has published a spin that landed on the house-win
\* segment 19
C15_Witness ==
  /\ Connected
  /\ winning_segment_index = 19
  /\ published = << "spinning", "flash_red" >>

\* C16: recording a house-win (0,0,0) or a spin-again (9,9,9) increments its
\* own counter, House Wins or Spin Again, and none of Triples, Doubles and
\* Singles.
C16_SentinelsBypassCombos ==
  [][SpinSettles =>
       LET landed == WHEEL_RESULTS[winning_segment_index' + 1]
           own    == IF landed = << 0, 0, 0 >> THEN "House Wins" ELSE "Spin Again"
       IN  (landed \in { << 0, 0, 0 >>, << 9, 9, 9 >> }) =>
             /\ spin_counts_full'[own] = spin_counts_full[own] + 1
             /\ combo_counts_full' = combo_counts_full]_vars

\* C17: recording a segment that is neither (0,0,0) nor (9,9,9) increments
\* exactly one of Triples, Doubles, Singles, by one: Triples when the three
\* dice are equal, Singles when they all differ, Doubles otherwise.
C17_OneComboPerResult ==
  [][(solver'.pc = "recorded") =>
       LET r   == WHEEL_RESULTS[solver'.idx + 1]
           cat == IF r[1] = r[2] /\ r[2] = r[3] THEN "Triples"
                  ELSE IF r[1] # r[2] /\ r[1] # r[3] /\ r[2] # r[3] THEN "Singles"
                  ELSE "Doubles"
       IN  (r \notin { << 0, 0, 0 >>, << 9, 9, 9 >> }) =>
             combo_counts_full' = [combo_counts_full EXCEPT ![cat] = @ + 1]]_vars

\* a triple and a double have been recorded
C17_Witness ==
  /\ solver.pc = "recorded"
  /\ combo_counts_full["Triples"] = 1
  /\ combo_counts_full["Doubles"] = 1
  /\ combo_counts_full["Singles"] = 0


\* C18: outside test mode current_angle follows one unbroken path: in
\* wind-up it is the wind-up angle of the progress made, which for no
\* progress is rest_angle; in the spin it is the spin angle of the progress
\* made, which for no progress is the last wind-up angle rest_angle -
\* WIND_UP_ANGLE_DEG; when idle it is rest_angle, after a settled spin the
\* final angle that spin reached.
C18_NoJumpAtTransitions ==
  ~test_mode =>
    /\ (animation_state = "winding_up") =>
         (current_angle = WindUpAngle(rest_angle, animation_progress))
    /\ (animation_state = "spinning") =>
         (current_angle = IF animation_progress[1] = 0
                          THEN AtAngle(rest_angle - Deg(WIND_UP_ANGLE_DEG))
                          ELSE SpinAngle(rest_angle, final_angle_base, animation_progress))
    /\ (animation_state = "idle") => (current_angle = AtAngle(rest_angle))


C20_CheckAndStartAtomic ==
  (msg_pc = "start") => (animation_state = "idle" /\ ~test_mode)


\* C21: with the broker in reach the display is connected in the end, also
\* when the connection attempt of start-up failed.
C21_ConnectsInTheEnd ==
  <>(loop_started /\ is_connected)

\* C22: while the client reports no connection, no step publishes anything,
\* the animation state moves only idle -> winding_up -> spinning -> idle
\* (or to idle by a test-mode frame), and a settling step records its result
\* in full: the wheel rests at final_angle_base, the segment under the
\* pointer is the winner, its text is displayed and put in front of the
\* history, and the spin is counted.
C22_SpinWithoutBroker ==
  [][~Connected =>
       /\ published' = published
       /\ (animation_state' # animation_state) =>
            \/ << animation_state, animation_state' >> \in
                 { << "idle", "winding_up" >>, << "winding_up", "spinning" >>,
                   << "spinning", "idle" >> }
            \/ test_mode /\ animation_state' = "idle"
       /\ SpinSettles =>
            LET idx == SegmentUnderPointer(final_angle_base, Deg(POINTER_ANGLE_DEG), seg_angle)
                txt == ResultText(WheelResult(idx))
            IN  /\ animation_state = "spinning" /\ animation_state' = "idle"
                /\ rest_angle' = final_angle_base
                /\ winning_segment_index' = idx
                /\ result_display_text' = txt
                /\ results_history_full' = InsertHistory(results_history_full, txt)
                /\ spin_counts_full' = SpinCounts(spin_counts_full, WheelResult(idx))]_vars

\* a spin started from the keyboard has settled and been recorded with no
\* network thread running
C22_Witness ==
  /\ ~loop_started
  /\ starts = 1
  /\ total_spins_full = 1
  /\ animation_state = "idle"
  /\ rest_angle = final_angle_base
  /\ Len(results_history_full) = 1
  /\ published = << >>


\* C23: the click is played in a frame only if the wheel is winding up or
\* spinning after it and the segment index under the pointer differs from
\* the one under the pointer in the frame before; in particular not in the
\* first frame of a spin that has not left the resting segment, and not
\* while idle.
C23_TickOnlyOnCrossing ==
  [][ticked' =>
       /\ animation_state' # "idle"
       /\ \E i \in TickIndices(current_angle), j \in TickIndices(current_angle') : i # j]_vars


\* C24: animation_progress lies in [0, 1] in every state.
C24_ProgressInUnitInterval ==
  /\ animation_progress[1] >= 0
  /\ animation_progress[1] <= animation_progress[2]

\* C25: ease_out_cubic(0) = 0, ease_out_cubic(1) = 1, and for x <= y of the
\* grid ease_out_cubic(x) <= ease_out_cubic(y).
C25_EaseOutCubic ==
  (solver.pc = "eased") =>
    /\ (solver.x[1] = 0) => (solver.ex = << 0, 1 >>)
    /\ (solver.x[1] = solver.x[2]) => (solver.ex = << 1, 1 >>)
    /\ solver.ex[1] * solver.ey[2] <= solver.ey[1] * solver.ex[2]

\* ease_out_cubic applied to 1/2 and to 1
C25_Witness ==
  /\ solver.pc = "eased"
  /\ solver.x = << 1, 2 >>
  /\ solver.y = << 2, 2 >>
  /\ solver.ex = << 7, 8 >>
  /\ solver.ey = << 1, 1 >>

\* C26: for every progress u < 0.75 the wobble is 0 and the angle of the
\* spin is the eased base angle
\* spin_start + (final - spin_start) * ease_out_cubic(u).
C26_NoWobbleBeforeStart ==
  (solver.pc = "eased" /\ 4 * solver.x[1] < 3 * solver.x[2]) =>
    LET spin_start == EaseRest - Deg(WIND_UP_ANGLE_DEG)
        num == spin_start * solver.ex[2] + (EaseFinal - spin_start) * solver.ex[1]
    IN  /\ solver.wobble[1] = 0
        /\ solver.angle.wobble[1] = 0
        /\ solver.angle.base[1] * solver.ex[2] = num * solver.angle.base[2]

\* the angle computed for the progress 5/7, the last of its grid below 0.75
C26_Witness ==
  /\ solver.pc = "eased"
  /\ solver.x = << 5, 7 >>
  /\ solver.wobble = ZeroProgress
  /\ solver.angle.wobble = ZeroProgress

\* C27: the final angle computed by _pick_target is congruent modulo 360
\* degrees to (k + 0.5) * seg_angle - pointer angle, for every target k,
\* rest angle and spin count.
C27_FinalAngleCongruent ==
  (solver.pc \in { "read", "turned" }) =>
    LET seg == SegAngle(solver.n)
    IN  (2 * (solver.final + Deg(POINTER_ANGLE_DEG)) - (2 * solver.k + 1) * seg)
          % (2 * Deg(360)) = 0

\* target 7 of the 54 segment wheel, from a rest angle off the centre of a
\* segment, with 5 turns
C27_Witness ==
  /\ solver.pc = "read"
  /\ solver.n = NUM_PEGS
  /\ solver.k = 7
  /\ solver.rest = AngleGrid(5)
  /\ solver.spins = 5

C29_TestModeMatchesRead ==
  (/\ test_mode
   /\ winning_segment_index # NoneIdx
   /\ rest_angle = TestModeAngle(winning_segment_index)) =>
    (SegmentUnderPointer(rest_angle, Deg(POINTER_ANGLE_DEG), seg_angle) = winning_segment_index)


\* C30: under every interleaving of the network thread with the main loop,
\* the step that records a settled spin sets rest_angle to the final angle of
\* the spin that has just been drawn to its end, and records and publishes
\* the segment read from that angle.
C30_SettleReadsOwnSpin ==
  [][SpinSettles =>
       /\ current_angle' = AtAngle(rest_angle')
       /\ winning_segment_index' =
            SegmentUnderPointer(current_angle'.base[1], Deg(POINTER_ANGLE_DEG), seg_angle)]_vars


\* C31: the published messages alternate: "spinning" is never published
\* right after "spinning", and no flash message is published by a step that
\* leaves the wheel winding up or spinning.
C31_PublishedAlternates ==
  [][(published' # published) =>
       LET msg == published'[Len(published')]
       IN  /\ (msg = "spinning" /\ published # << >>) =>
                (published[Len(published)] # "spinning")
           /\ (msg # "spinning") => (animation_state' = "idle")]_vars


\* C32: a step of the indicator that delivers no message changes
\* current_state only from a flash state to post_flash_delay, from
\* post_flash_delay to fade_to_green and from fade_to_green to idle; idle and
\* spinning are left only by a message.
C32_NoMessageNoJump ==
  [][(~Delivery /\ current_state' # current_state) =>
       \/ StartsWithFlash(current_state) /\ current_state' = "post_flash_delay"
       \/ current_state = "post_flash_delay" /\ current_state' = "fade_to_green"
       \/ current_state = "fade_to_green" /\ current_state' = "idle"]_vars

\* the indicator is still spinning, several rainbow steps after the one
\* message it got
C32_Witness ==
  /\ current_state = "spinning"
  /\ last_msg = "spinning"
  /\ messages = 1
  /\ rainbow_step > 2
  /\ ind_pc = "poll"

\* C38: in a flash state 0 <= flash_count_completed < flash_target_count, and
\* the target count and the colour are those of the state's message: 13 and
\* red for flash_red, 13 and green for flash_green, 13 and white otherwise;
\* flash_count_completed grows by one, at the end of a fade-out, and reaches
\* flash_target_count only in the step that enters post_flash_delay.
C38_FlashCounters ==
  /\ [](StartsWithFlash(current_state) =>
          /\ 0 <= flash_count_completed
          /\ flash_count_completed < flash_target_count
          /\ flash_target_count = 13
          /\ flash_color_target = IF current_state = "flash_red" THEN << 255, 0, 0 >>
                                  ELSE IF current_state = "flash_green" THEN << 0, 255, 0 >>
                                  ELSE << 255, 255, 255 >>)
  /\ [][(~Delivery /\ flash_count_completed' # flash_count_completed) =>
          /\ flash_count_completed' = flash_count_completed + 1
          /\ StartsWithFlash(current_state)
          /\ ~flash_is_fading_in
          /\ flash_is_fading_in'
          /\ (flash_count_completed' = flash_target_count) <=>
               (current_state' = "post_flash_delay")]_vars

\* the last green flash is fading out
C38_Witness ==
  /\ current_state = "flash_green"
  /\ flash_color_target = GREEN
  /\ flash_count_completed = FLASH_COUNT_GREEN - 1
  /\ ~flash_is_fading_in


\* C33: the map from the target index k to the index recorded at the end of
\* the spin is a permutation of 0..N-1, and it is the same map whatever the
\* rest angle and the spin count: the recorded index is the one recorded for
\* k from rest angle 0 with MIN_SPINS turns.
C33_WinnerPermutation ==
  (solver.pc \in { "read", "turned" }) =>
    /\ solver.idx = RecordedIndex(solver.k, 0, MIN_SPINS, solver.n, solver.windUp)
    /\ solver.idx = RecordedIndex(solver.k, solver.rest, solver.spins, solver.n,
                                  solver.windUp)
    /\ (solver.pc = "read") =>
         { RecordedIndex(k, solver.rest, solver.spins, solver.n, solver.windUp) :
             k \in 0..(solver.n - 1) } = 0..(solver.n - 1)

\* target 20 of the 54 segment wheel, from a negative rest angle that has a
\* border under the pointer, with MAX_SPINS turns, read as index 6
C33_Witness ==
  /\ solver.pc = "read"
  /\ solver.n = NUM_PEGS
  /\ solver.k = 20
  /\ solver.rest = AngleGrid(0 - 7)
  /\ solver.spins = MAX_SPINS
  /\ solver.idx = 6


\* C34: in every reachable state SPACE starts a spin exactly when a
\* wheel/spin "pressed" message would: the test of _handle_events and the
\* test of _on_mqtt_message accept in the same states.
C34_SameAcceptance ==
  SpaceAccepted <=> MessageAccepted


\* C35: while the statistics screen is shown, a step that does not start a
\* spin (a frame, a key) changes none of animation_state, animation_progress,
\* current_angle, rest_angle, last_tick_idx and the statistics, the step back
\* to the game screen included: the spin is paused and resumes from the same
\* progress.
C35_PausedOnStats ==
  [][(current_screen = "stats" /\ ~SpinStarts) =>
       UNCHANGED << animation_state, animation_progress, current_angle, rest_angle,
                    final_angle_base, current_spin_duration, last_tick_idx,
                    results_history_full, total_spins_full, stats_vars >>]_vars

\* the statistics screen shown over a spin that is part of the way through
\* its spinning phase
C35_Witness ==
  /\ current_screen = "stats"
  /\ animation_state = "spinning"
  /\ animation_progress[1] > 0
  /\ ~refused_trigger
  /\ msg_pc = "idle"


\* C36: the silent simulation runs only on a wheel that is not animating,
\* adds exactly 45 to total_spins_full (no step adds anything but 0, 1 or 45),
\* leaves animation_state, animation_progress, current_angle, rest_angle and
\* winning_segment_index unchanged and publishes nothing.
C36_SilentSimulation ==
  [][/\ total_spins_full' \in { total_spins_full, total_spins_full + 1,
                               total_spins_full + SIM_SPINS }
     /\ (total_spins_full' > total_spins_full + 1) =>
          /\ animation_state = "idle"
          /\ UNCHANGED << animation_state, animation_progress, current_angle,
                          rest_angle, winning_segment_index, published >>]_vars

\* a simulation run on a connected display after a spin has settled: the
\* newest entry of the history is not the text of that spin
C36_Witness ==
  /\ solver.pc = "simulated"
  /\ total_spins_full = SIM_SPINS + 1
  /\ is_connected
  /\ Len(published) = 2
  /\ animation_state = "idle"
  /\ winning_segment_index # NoneIdx
  /\ results_history_full[1] # result_display_text

\* C37: after any settled spins and silent simulations the history holds at
\* most 45 entries, Singles + Doubles + Triples = total_spins_full and
\* House Wins + Spin Again + total_dice_rolled_full / 3 = total_spins_full; a
\* settled spin adds one to the total and puts its text first in the history,
\* a simulation adds 45 and leaves its 45 texts, the last drawn first.
C37_StatisticsConsistent ==
  /\ [](/\ Len(results_history_full) <= 45
        /\ Len(results_history_full) <= total_spins_full
        /\ combo_counts_full["Singles"] + combo_counts_full["Doubles"]
             + combo_counts_full["Triples"] = total_spins_full
        /\ total_dice_rolled_full % 3 = 0
        /\ spin_counts_full["House Wins"] + spin_counts_full["Spin Again"]
             + (total_dice_rolled_full \div 3) = total_spins_full)
  /\ [][/\ (total_spins_full' = total_spins_full + 1) =>
             /\ results_history_full'[1] = result_display_text'
             /\ \A j \in 2..Len(results_history_full') :
                  results_history_full'[j] = results_history_full[j - 1]
             /\ Len(results_history_full') \in
                  { Len(results_history_full) + 1, 45 }
        /\ (total_spins_full' = total_spins_full + SIM_SPINS) =>
             /\ Len(results_history_full') = 45
             /\ \A j \in 1..45 :
                  results_history_full'[j] =
                    ResultText(WheelResult(
                      SimulationDraw(solver'.from, solver'.by)[SIM_SPINS + 1 - j]))
        /\ (total_spins_full' = total_spins_full) =>
             (results_history_full' = results_history_full)]_vars

\* a spin settled after a simulation: 46 results recorded, the 45 most recent
\* kept, the spin's text first
C37_Witness ==
  /\ solver.pc = "simulated"
  /\ total_spins_full = SIM_SPINS + 1
  /\ Len(results_history_full) = 45
  /\ results_history_full[1] = result_display_text
  /\ results_history_full[2] =
       ResultText(WheelResult(SimulationDraw(solver.from, solver.by)[SIM_SPINS]))


\* C39: a pass of the loop publishes "pressed" only when it reads the button
\* pressed after a pass has read it released, since start-up and since the
\* last publish (a released -> pressed transition, never a button that has
\* merely been held, never before a release has been observed), and only
\* when more than 200 ms have passed since the previous publish.
C39_PressedOnlyOnEdge ==
  [][(ind_pc = "run" /\ ind_pc' = "poll" /\ pressed_sent') =>
       /\ button_down
       /\ release_seen
       /\ debounce_time > DEBOUNCE_MS
       /\ debounce_time' <= DEBOUNCE_MS
       /\ ~release_seen']_vars

\* "pressed" has just been published over a connection that the except
\* block of the loop made, by a button that is still down
C39_Witness ==
  /\ pressed_sent
  /\ button_down
  /\ last_button_state
  /\ ~release_seen
  /\ reconnected
  /\ ind_pc = "poll"

====
